---- MODULE Spec2Model ----
(***************************************************************************)
(* A model of ipldstore's content-addressable stores                       *)
(* (src/ipldstore/contentstore.py): the in-memory MappingCAStore with its  *)
(* CAR export/import, and the IPFSStore with its tree sharding.            *)
(*                                                                         *)
(* Text is a sequence of character codes ("/" is 47, "-" is 45, the digits *)
(* are 48..57).  Bytes are a sequence of tokens: a raw payload is a        *)
(* sequence of "byte" tokens, a CBOR document is the sequence of its data  *)
(* items in prefix order.  A digest is symbolic: the pair of the hash      *)
(* function and the bytes hashed, so two digests are equal exactly when    *)
(* function and preimage are (the hash functions are taken to be           *)
(* collision free).                                                        *)
(***************************************************************************)
EXTENDS Integers, Sequences, FiniteSets, TLC

VARIABLES
    mapping,    \* MappingCAStore._mapping of each store: canonical text -> bytes
    config,     \* each store's _default_hash and _default_base
    car,        \* the archive in flight between to_car and import_car
    imp,        \* import_car's position in the archive it is reading
    out,        \* what the last operation returned or raised
    blocks,     \* the IPFS node's block store (behind IPFSStore._host)
    self,       \* the IPFSStore: _max_nodes_per_level, _default_hash, and the process's hash seed
    shard,      \* IPFSStore.put's position in make_tree_structure
    ipfsOut     \* what the last IPFSStore operation returned or raised

memVars == <<mapping, config, car, imp, out>>
ipfsVars == <<blocks, self, shard, ipfsOut>>
vars == <<mapping, config, car, imp, out, blocks, self, shard, ipfsOut>>

----------------------------------------------------------------------------
(* Identifiers (multiformats.CID)                                          *)

RawCodec == "raw"
DagPbCodec == "dag-pb"
DagCborCodec == "dag-cbor"

NoDigest == [alg |-> "", pre |-> <<>>]
NoBin == [version |-> 0, codec |-> "", hashfn |-> "", digest |-> NoDigest]

\* multihash.Multihash(codec=h).digest(raw_value)
Digest(h, raw_value) == [alg |-> h, pre |-> raw_value]

\* CID(base, version, codec, digest)
CID(base, version, codec, h) ==
    [base |-> base, version |-> version, codec |-> codec, hashfn |-> h.alg, digest |-> h]

NoCid == [base |-> "", version |-> 0, codec |-> "", hashfn |-> "", digest |-> NoDigest]

\* bytes(cid): the binary form carries no multibase
BinCID(cid) ==
    [version |-> cid.version, codec |-> cid.codec, hashfn |-> cid.hashfn, digest |-> cid.digest]

\* CID.decode(bytes): a version-1 identifier decodes to base32, a version-0 one to base58btc
CIDdecode(bin) ==
    [base |-> IF bin.version = 0 THEN "base58btc" ELSE "base32",
     version |-> bin.version, codec |-> bin.codec, hashfn |-> bin.hashfn, digest |-> bin.digest]

\* the multibase prefix character of a base
MultibasePrefix(base) == IF base = "base32" THEN "b" ELSE IF base = "base58btc" THEN "z" ELSE "?"

\* str(cid): the multibase prefix and the encoded binary form; version 0 has no prefix
StrCID(cid) ==
    [prefix |-> IF cid.version = 0 THEN "" ELSE MultibasePrefix(cid.base), bin |-> BinCID(cid)]

\* cid.set(base=..., version=1)
CIDset(cid, base, version) == [cid EXCEPT !.base = base, !.version = version]

----------------------------------------------------------------------------
(* Values (bytes | DagCborEncodable) and their CBOR encodings              *)

IntV(n) == [t |-> "int", n |-> n, kids |-> <<>>, cid |-> NoBin, b |-> <<>>]
MapV(kids) == [t |-> "map", n |-> 0, kids |-> kids, cid |-> NoBin, b |-> <<>>]
ListV(kids) == [t |-> "list", n |-> 0, kids |-> kids, cid |-> NoBin, b |-> <<>>]
\* a CID object
LinkV(cid) == [t |-> "link", n |-> 0, kids |-> <<>>, cid |-> BinCID(cid), b |-> <<>>]
\* a cbor2.CBORTag(42, b'\x00' + bytes(cid)) object
TagV(bin) == [t |-> "tag", n |-> 0, kids |-> <<>>, cid |-> bin, b |-> <<>>]
BytesV(b) == [t |-> "bytes", n |-> 0, kids |-> <<>>, cid |-> NoBin, b |-> b]
\* a dict item (k: text, v: value); a list item has the empty key
KV(k, v) == [k |-> k, v |-> v]

Tok(k, n, s, cid) == [k |-> k, n |-> n, s |-> s, cid |-> cid]
Byte(n) == Tok("byte", n, <<>>, NoBin)

Keys(kids) == {kids[i].k : i \in 1..Len(kids)}

\* d[k] of a dict given as its item sequence
Lookup(kids, k) == (CHOOSE i \in 1..Len(kids) : kids[i].k = k)

\* d[k] = v: an existing key keeps its place, a new one is appended
DictSet(kids, k, v) ==
    IF k \in Keys(kids)
    THEN [i \in 1..Len(kids) |-> IF kids[i].k = k THEN KV(k, v) ELSE kids[i]]
    ELSE Append(kids, KV(k, v))

RECURSIVE TextLess(_, _, _)
TextLess(a, b, i) ==
    IF i > Len(a) THEN FALSE
    ELSE IF a[i] # b[i] THEN a[i] < b[i]
    ELSE TextLess(a, b, i + 1)

\* DAG-CBOR's canonical map key order: shorter keys first, then bytewise
KeyLess(a, b) == Len(a) < Len(b) \/ (Len(a) = Len(b) /\ TextLess(a, b, 1))

RECURSIVE InsertSorted(_, _)
InsertSorted(sorted, item) ==
    IF sorted = <<>> THEN <<item>>
    ELSE IF KeyLess(item.k, Head(sorted).k) THEN <<item>> \o sorted
    ELSE <<Head(sorted)>> \o InsertSorted(Tail(sorted), item)

RECURSIVE SortKids(_)
SortKids(kids) ==
    IF kids = <<>> THEN <<>> ELSE InsertSorted(SortKids(Tail(kids)), Head(kids))

\* default_encoder: a CID is written as tag 42 over b'\x00' + bytes(cid)
default_encoder(value) == Tok("tag42", 0, <<>>, value.cid)

RECURSIVE EncodeItem(_, _), EncodeKids(_, _, _)
\* one data item; canonical (dag_cbor) sorts the keys of every map
EncodeItem(v, canonical) ==
    CASE v.t = "int" -> <<Tok("int", v.n, <<>>, NoBin)>>
      [] v.t = "link" -> <<default_encoder(v)>>
      [] v.t = "tag" -> <<Tok("tag42", 0, <<>>, v.cid)>>
      [] v.t = "bytes" -> <<Tok("bstr", Len(v.b), <<>>, NoBin)>> \o v.b
      [] v.t = "list" -> <<Tok("list", Len(v.kids), <<>>, NoBin)>> \o EncodeKids(v.kids, FALSE, canonical)
      [] v.t = "map" ->
            <<Tok("map", Len(v.kids), <<>>, NoBin)>>
            \o EncodeKids(IF canonical THEN SortKids(v.kids) ELSE v.kids, TRUE, canonical)

EncodeKids(kids, isMap, canonical) ==
    IF kids = <<>> THEN <<>>
    ELSE (IF isMap THEN <<Tok("str", 0, Head(kids).k, NoBin)>> ELSE <<>>)
         \o EncodeItem(Head(kids).v, canonical)
         \o EncodeKids(Tail(kids), isMap, canonical)

\* dag_cbor.encode(value)
dag_cbor_encode(v) == EncodeItem(v, TRUE)

\* cbor2.dumps(value, default=default_encoder): keys stay in insertion order
cbor2_dumps(v) == EncodeItem(v, FALSE)

ParseFail == [ok |-> FALSE, v |-> IntV(0), kids |-> <<>>, next |-> 0]

RECURSIVE ParseItem(_, _, _), ParseKids(_, _, _, _, _)
\* the data item at bs[pos]; links is TRUE for dag_cbor (tag 42 becomes a CID)
\* and FALSE for cbor2 (tag 42 stays a CBORTag)
ParseItem(bs, pos, links) ==
    IF pos > Len(bs) THEN ParseFail
    ELSE LET t == bs[pos] IN
         CASE t.k = "int" -> [ok |-> TRUE, v |-> IntV(t.n), kids |-> <<>>, next |-> pos + 1]
           [] t.k = "tag42" ->
                [ok |-> TRUE,
                 v |-> IF links THEN LinkV(CIDdecode(t.cid)) ELSE TagV(t.cid),
                 kids |-> <<>>, next |-> pos + 1]
           [] t.k = "bstr" ->
                IF pos + t.n > Len(bs) THEN ParseFail
                ELSE [ok |-> TRUE, v |-> BytesV(SubSeq(bs, pos + 1, pos + t.n)),
                      kids |-> <<>>, next |-> pos + t.n + 1]
           [] t.k \in {"map", "list"} ->
                LET r == ParseKids(bs, pos + 1, t.n, t.k = "map", links) IN
                IF ~r.ok THEN ParseFail
                ELSE [ok |-> TRUE,
                      v |-> IF t.k = "map" THEN MapV(r.kids) ELSE ListV(r.kids),
                      kids |-> <<>>, next |-> r.next]
           [] OTHER -> ParseFail

ParseKids(bs, pos, count, isMap, links) ==
    IF count = 0 THEN [ok |-> TRUE, v |-> IntV(0), kids |-> <<>>, next |-> pos]
    ELSE IF isMap /\ (pos > Len(bs) \/ bs[IF pos > Len(bs) THEN 1 ELSE pos].k # "str") THEN ParseFail
    ELSE LET key == IF isMap THEN bs[pos].s ELSE <<>>
             item == ParseItem(bs, IF isMap THEN pos + 1 ELSE pos, links)
         IN  IF ~item.ok THEN ParseFail
             ELSE LET rest == ParseKids(bs, item.next, count - 1, isMap, links) IN
                  IF ~rest.ok THEN ParseFail
                  ELSE [ok |-> TRUE, v |-> IntV(0),
                        kids |-> <<KV(key, item.v)>> \o rest.kids, next |-> rest.next]

\* a decoded document, or the decoder's error: [ok, v]
Decoded(bs, links) ==
    LET r == ParseItem(bs, 1, links) IN
    IF bs # <<>> /\ r.ok /\ r.next = Len(bs) + 1
    THEN [ok |-> TRUE, v |-> r.v] ELSE [ok |-> FALSE, v |-> IntV(0)]

\* dag_cbor.decode(data)
dag_cbor_decode(bs) == Decoded(bs, TRUE)

\* cbor2.loads(data)
cbor2_loads(bs) == Decoded(bs, FALSE)

RECURSIVE iter_links(_), IterLinksKids(_)
\* the CIDs of a decoded value, in encounter order, repeats included
iter_links(o) ==
    CASE o.t \in {"map", "list"} -> IterLinksKids(o.kids)
      [] o.t = "link" -> <<CIDdecode(o.cid)>>
      [] OTHER -> <<>>

IterLinksKids(kids) ==
    IF kids = <<>> THEN <<>> ELSE iter_links(Head(kids).v) \o IterLinksKids(Tail(kids))

----------------------------------------------------------------------------
(* MappingCAStore                                                          *)

EmptyMapping == [k \in {} |-> <<>>]

\* MappingCAStore.normalize_cid
normalize_cid(cfg, cid) == CIDset(cid, cfg.base, 1)

\* MappingCAStore.get_raw: self._mapping[str(self.normalize_cid(cid))], or KeyError
get_raw(m, cfg, cid) ==
    LET key == StrCID(normalize_cid(cfg, cid)) IN
    IF key \in DOMAIN m THEN [err |-> "", data |-> m[key]]
    ELSE [err |-> "KeyError", data |-> <<>>]

\* put_raw building the identifier in base32 whatever the store's default base is
put_raw_base32(m, cfg, raw_value, codec) ==
    LET h == Digest(cfg.hash, raw_value)
        cid == CID("base32", 1, codec, h)
    IN  [cid |-> cid,
         mapping |-> [k \in DOMAIN m \cup {StrCID(cid)} |->
                         IF k = StrCID(cid) THEN raw_value ELSE m[k]]]

\* put_raw hashing with sha2-256 whatever the store's default hash is
put_raw_sha256(m, cfg, raw_value, codec) ==
    LET h == Digest("sha2-256", raw_value)
        cid == CID(cfg.base, 1, codec, h)
    IN  [cid |-> cid,
         mapping |-> [k \in DOMAIN m \cup {StrCID(cid)} |->
                         IF k = StrCID(cid) THEN raw_value ELSE m[k]]]

\* MappingCAStore.put_raw: the identifier is derived from the bytes
put_raw(m, cfg, raw_value, codec) ==
    LET h == Digest(cfg.hash, raw_value)
        cid == CID(cfg.base, 1, codec, h)
    IN  [cid |-> cid,
         mapping |-> [k \in DOMAIN m \cup {StrCID(cid)} |->
                         IF k = StrCID(cid) THEN raw_value ELSE m[k]]]

\* ContentAddressableStore.get
get(m, cfg, cid) ==
    LET value == get_raw(m, cfg, cid) IN
    IF value.err # "" THEN [err |-> value.err, v |-> IntV(0)]
    ELSE IF cid.codec = RawCodec THEN [err |-> "", v |-> BytesV(value.data)]
    ELSE IF cid.codec = DagCborCodec
         THEN LET d == dag_cbor_decode(value.data) IN
              IF d.ok THEN [err |-> "", v |-> d.v] ELSE [err |-> "DecodeError", v |-> IntV(0)]
    ELSE [err |-> "ValueError", v |-> IntV(0)]

\* ContentAddressableStore.put
put(m, cfg, value) ==
    IF value.t = "bytes" THEN put_raw(m, cfg, value.b, RawCodec)
    ELSE put_raw(m, cfg, dag_cbor_encode(value), DagCborCodec)

\* the text "roots" and "version"
TextRoots == <<114, 111, 111, 116, 115>>
TextVersion == <<118, 101, 114, 115, 105, 111, 110>>

\* len(bytes(cid)): version, codec, hash function, digest length, digest
CidLen(bin) ==
    (IF bin.version = 0 THEN 2 ELSE 4) + (IF bin.hashfn = "sha2-512" THEN 64 ELSE 32)

\* varint(len(cid_bytes) + len(data)) || cid_bytes || data
Frame(cid, data) == [len |-> CidLen(BinCID(cid)) + Len(data), cid |-> BinCID(cid), data |-> data]

RECURSIVE _to_car(_, _, _, _), ToCarChildren(_, _, _, _)
RECURSIVE ToCarChildrenNoDedup(_, _, _, _), ToCarChildrenSkipMissing(_, _, _, _)
\* st is the stream and already_written so far: [err, frames, written]
_to_car(m, cfg, root, st) ==
    IF st.err # "" \/ BinCID(root) \in st.written THEN st
    ELSE LET r == get_raw(m, cfg, root) IN
         IF r.err # "" THEN [st EXCEPT !.err = r.err]
         ELSE LET st1 == [err |-> "", frames |-> Append(st.frames, Frame(root, r.data)),
                          written |-> st.written \cup {BinCID(root)}]
              IN  IF root.codec = DagCborCodec
                  THEN LET value == dag_cbor_decode(r.data) IN
                       IF value.ok THEN ToCarChildren(m, cfg, iter_links(value.v), st1)
                       ELSE [st1 EXCEPT !.err = "DecodeError"]
                  ELSE st1

\* the loop over the children without the already_written set
ToCarChildrenNoDedup(m, cfg, children, st) ==
    IF children = <<>> \/ st.err # "" THEN st
    ELSE ToCarChildrenNoDedup(m, cfg, Tail(children),
                              _to_car(m, cfg, Head(children), [st EXCEPT !.written = {}]))

\* the loop over the children passing over a child the store does not hold
ToCarChildrenSkipMissing(m, cfg, children, st) ==
    IF children = <<>> \/ st.err # "" THEN st
    ELSE ToCarChildrenSkipMissing(m, cfg, Tail(children),
            IF get_raw(m, cfg, Head(children)).err # "" THEN st
            ELSE _to_car(m, cfg, Head(children), st))

\* for child in iter_links(value): self._to_car(child, stream, already_written)
ToCarChildren(m, cfg, children, st) ==
    IF children = <<>> \/ st.err # "" THEN st
    ELSE ToCarChildren(m, cfg, Tail(children), _to_car(m, cfg, Head(children), st))

\* ContentAddressableStore.to_car: [err, header, frames]
to_car(m, cfg, root) ==
    LET header == dag_cbor_encode(MapV(<<KV(TextVersion, IntV(1)),
                                         KV(TextRoots, ListV(<<KV(<<>>, LinkV(root))>>))>>))
        st == _to_car(m, cfg, root, [err |-> "", frames |-> <<>>, written |-> {}])
    IN  [err |-> st.err, header |-> header, frames |-> st.frames]

----------------------------------------------------------------------------
(* Reading an archive (car.read_car)                                       *)

\* the header of a stream: a map holding a "roots" list of identifiers, or CorruptArchive
read_car_header(header) ==
    LET d == dag_cbor_decode(header)
        ok == /\ d.ok
              /\ d.v.t = "map"
              /\ TextRoots \in Keys(d.v.kids)
              /\ LET roots == d.v.kids[Lookup(d.v.kids, TextRoots)].v IN
                 /\ roots.t = "list"
                 /\ \A i \in 1..Len(roots.kids) : roots.kids[i].v.t = "link"
    IN  IF ok THEN [err |-> "", roots |-> iter_links(d.v.kids[Lookup(d.v.kids, TextRoots)].v)]
        ELSE [err |-> "CorruptArchive", roots |-> <<>>]

\* the next framed entry: cut short it is CorruptArchive, and a payload that does not
\* hash to the digest of its identifier is IntegrityError
decode_car_block(frame) ==
    IF frame.len # CidLen(frame.cid) + Len(frame.data)
    THEN [err |-> "CorruptArchive", cid |-> NoCid, data |-> <<>>]
    ELSE IF Digest(frame.cid.hashfn, frame.data) # frame.cid.digest
    THEN [err |-> "IntegrityError", cid |-> NoCid, data |-> <<>>]
    ELSE [err |-> "", cid |-> CIDdecode(frame.cid), data |-> frame.data]

----------------------------------------------------------------------------
(* What the callers pass in                                                *)

TextA == <<97>>
TextB == <<98>>
TextAA == <<97, 97>>
TextP == <<112>>
TextQ == <<113>>

B1 == <<Byte(104), Byte(105)>>
B2 == <<Byte(7)>>

\* the identifier a store hashing with h gives the raw bytes b, and the value v
RawCid(h, b) == CID("base32", 1, RawCodec, Digest(h, b))
ValCid(h, v) == CID("base32", 1, DagCborCodec, Digest(h, dag_cbor_encode(v)))

\* {"aa": [X2, X1], "a": 1, "b": X1}: X1 is referenced twice, and the canonical
\* key order (a, b, aa) is not the insertion order
V2(h) == MapV(<<KV(TextAA, ListV(<<KV(<<>>, LinkV(RawCid(h, B2))), KV(<<>>, LinkV(RawCid(h, B1)))>>)),
                KV(TextA, IntV(1)),
                KV(TextB, LinkV(RawCid(h, B1)))>>)
\* {"p": Y2, "q": X2}: X2 is reachable through Y2 and directly
V3(h) == MapV(<<KV(TextP, LinkV(ValCid(h, V2(h)))), KV(TextQ, LinkV(RawCid(h, B2)))>>)

Hashes == {"sha2-256", "sha2-512"}
ValPools == [h \in Hashes |-> {BytesV(B1), V2(h), V3(h)}]
ValPool(h) == ValPools[h]
RawInputs == {<<B2, RawCodec>>, <<B1, DagPbCodec>>}
\* for the exports: a second raw block, and bytes that are no DAG-CBOR under the dag-cbor tag
CarRawInputs == {<<B2, RawCodec>>, <<B1, DagCborCodec>>}

\* identifiers a caller may ask for: stored ones, in another base, in version 0, and unknown ones
QueryPools ==
    [h \in Hashes |->
        {RawCid(h, B1), ValCid(h, V2(h)), ValCid(h, V3(h)),
         CIDset(ValCid(h, V3(h)), "base58btc", 1),
         CID("base58btc", 0, DagPbCodec, Digest("sha2-256", B1))}]
QueryPool(h) == QueryPools[h]

\* roots a caller may export
CarRoots ==
    [h \in Hashes |->
        {RawCid(h, B1), ValCid(h, V2(h)), ValCid(h, V3(h)),
         CIDset(ValCid(h, V3(h)), "base58btc", 1),
         CID("base32", 1, DagCborCodec, Digest(h, B1))}]

Configs ==
    {[hash |-> "sha2-256", base |-> "base32"],
     [hash |-> "sha2-512", base |-> "base32"],
     [hash |-> "sha2-256", base |-> "base58btc"]}

Tampers == {"none", "payload", "truncate", "header"}

NoGot == [err |-> "", v |-> IntV(0)]
NoCar == [full |-> FALSE, root |-> NoCid, header |-> <<>>, frames |-> <<>>, got |-> NoGot, hash |-> ""]
Idle == [pc |-> "idle", roots |-> <<>>, rest |-> <<>>, before |-> EmptyMapping, tamper |-> "none",
         src |-> NoCar]
NoOut ==
    [op |-> "", err |-> "", cid |-> NoCid, arg |-> <<>>, codec |-> "", had |-> FALSE,
     v |-> IntV(0), roots |-> <<>>]

\* the stream an importer is handed: the archive as written, or damaged on the way
Tampered(frames, tamper) ==
    LET n == Len(frames) IN
    IF n = 0 \/ tamper \notin {"payload", "truncate"} THEN frames
    ELSE [frames EXCEPT ![n].data =
            IF tamper = "payload" THEN <<Byte(0)>> \o frames[n].data
            ELSE SubSeq(frames[n].data, 1, Len(frames[n].data) - 1)]

TamperedHeader(header, tamper) == IF tamper = "header" THEN <<Tok("int", 1, <<>>, NoBin)>> ELSE header

NoSelf == [max_nodes_per_level |-> 0, default_hash |-> "", hashseed |-> 0]
NotSharding ==
    [pc |-> "idle", node |-> IntV(0), depth |-> 0, value |-> IntV(0), cid |-> NoCid,
     was |-> 0, puts |-> 0]
NoIpfsOut == [op |-> "", err |-> "", cid |-> NoCid, v |-> IntV(0)]

----------------------------------------------------------------------------
(* The operations of a MappingCAStore                                      *)

Init ==
    /\ mapping = EmptyMapping
    /\ config \in Configs
    /\ car = NoCar
    /\ imp = Idle
    /\ out = NoOut
    /\ blocks = EmptyMapping
    /\ self = NoSelf
    /\ shard = NotSharding
    /\ ipfsOut = NoIpfsOut

\* MappingCAStore(): a new, empty store
NewStore ==
    /\ imp.pc # "reading"
    /\ mapping' = EmptyMapping
    /\ config' \in Configs
    /\ out' = NoOut
    /\ imp' = Idle
    /\ UNCHANGED <<car, ipfsVars>>

Put(value) ==
    /\ imp.pc # "reading"
    /\ LET r == put(mapping, config, value) IN
       /\ mapping' = r.mapping
       /\ out' = [NoOut EXCEPT !.op = "put", !.cid = r.cid, !.v = value]
    /\ imp' = Idle
    /\ UNCHANGED <<config, car, ipfsVars>>

PutRaw(raw_value, codec) ==
    /\ imp.pc # "reading"
    /\ LET r == put_raw(mapping, config, raw_value, codec) IN
       /\ mapping' = r.mapping
       /\ out' = [NoOut EXCEPT !.op = "put_raw", !.cid = r.cid, !.arg = raw_value,
                               !.codec = codec, !.had = StrCID(r.cid) \in DOMAIN mapping]
    /\ imp' = Idle
    /\ UNCHANGED <<config, car, ipfsVars>>

Get(cid) ==
    /\ imp.pc # "reading"
    /\ LET r == get(mapping, config, cid) IN
       out' = [NoOut EXCEPT !.op = "get", !.cid = cid, !.err = r.err, !.v = r.v]
    /\ imp' = Idle
    /\ UNCHANGED <<mapping, config, car, ipfsVars>>

ToCar(root) ==
    /\ imp.pc # "reading"
    /\ LET r == to_car(mapping, config, root) IN
       /\ out' = [NoOut EXCEPT !.op = "to_car", !.cid = root, !.err = r.err]
       /\ car' = IF r.err # "" THEN car
                 ELSE [full |-> TRUE, root |-> root, header |-> r.header, frames |-> r.frames,
                       got |-> get(mapping, config, root), hash |-> config.hash]
    /\ imp' = Idle
    /\ UNCHANGED <<mapping, config, ipfsVars>>

\* import_car up to its loop: roots, blocks = read_car(stream); roots normalized
ImportStart(tamper) ==
    /\ imp.pc # "reading"
    /\ car.full
    /\ LET h == read_car_header(TamperedHeader(car.header, tamper)) IN
       IF h.err # ""
       THEN /\ imp' = [Idle EXCEPT !.pc = "failed", !.before = mapping, !.tamper = tamper,
                                   !.src = car]
            /\ out' = [NoOut EXCEPT !.op = "import_car", !.err = h.err]
       ELSE /\ imp' = [pc |-> "reading",
                       roots |-> [i \in 1..Len(h.roots) |-> normalize_cid(config, h.roots[i])],
                       rest |-> Tampered(car.frames, tamper),
                       before |-> mapping, tamper |-> tamper, src |-> car]
            /\ out' = NoOut
    /\ car' = NoCar
    /\ UNCHANGED <<mapping, config, ipfsVars>>

\* one turn of import_car's loop: self.put_raw(bytes(data), cid.codec)
ImportBlock ==
    /\ imp.pc = "reading"
    /\ imp.rest # <<>>
    /\ LET blk == decode_car_block(Head(imp.rest)) IN
       IF blk.err # ""
       THEN /\ imp' = [imp EXCEPT !.pc = "failed", !.rest = <<>>]
            /\ out' = [NoOut EXCEPT !.op = "import_car", !.err = blk.err]
            /\ mapping' = mapping
       ELSE /\ imp' = [imp EXCEPT !.rest = Tail(imp.rest)]
            /\ out' = NoOut
            /\ mapping' = put_raw(mapping, config, blk.data, blk.cid.codec).mapping
    /\ UNCHANGED <<config, car, ipfsVars>>

\* import_car's return roots, the stream exhausted
ImportReturn ==
    /\ imp.pc = "reading"
    /\ imp.rest = <<>>
    /\ imp' = [imp EXCEPT !.pc = "done"]
    /\ out' = [NoOut EXCEPT !.op = "import_car", !.roots = imp.roots]
    /\ UNCHANGED <<mapping, config, car, ipfsVars>>

\* a store and its callers: put, put_raw, get
Next ==
    \/ NewStore
    \/ \E value \in ValPool(config.hash) : Put(value)
    \/ \E i \in RawInputs : PutRaw(i[1], i[2])
    \/ \E cid \in QueryPool(config.hash) : Get(cid)

Spec == Init /\ [][Next]_vars

\* a store, its exports and its imports
NextCar ==
    \/ NewStore
    \/ \E value \in ValPool(config.hash) : Put(value)
    \/ \E i \in CarRawInputs : PutRaw(i[1], i[2])
    \/ \E root \in CarRoots[config.hash] : ToCar(root)
    \/ \E tamper \in Tampers : ImportStart(tamper)
    \/ ImportBlock
    \/ ImportReturn

SpecCar == Init /\ [][NextCar]_vars

----------------------------------------------------------------------------
(* IPFSStore, and the IPFS node it posts to                                *)

MaxKeys == 5
MaxPuts == 1
RecursionLimit == 6
HashBits == 20

\* grouper stepping by one key instead of by size: every group a single key
grouper_step_one(seq, size) == [i \in 1..Len(seq) |-> <<seq[i]>>]

\* grouper(seq, size): seq[pos:pos + size] for pos in range(0, len(seq), size)
RECURSIVE grouper(_, _)
grouper(seq, size) ==
    IF seq = <<>> THEN <<>>
    ELSE IF Len(seq) <= size THEN <<seq>>
    ELSE <<SubSeq(seq, 1, size)>> \o grouper(SubSeq(seq, size + 1, Len(seq)), size)

RECURSIVE DigitsOf(_)
DigitsOf(n) == IF n < 10 THEN <<48 + n>> ELSE DigitsOf(n \div 10) \o <<48 + (n % 10)>>

\* f"{n}"
IntText(n) == IF n < 0 THEN <<45>> \o DigitsOf(-n) ELSE DigitsOf(n)

RECURSIVE StrHashFrom(_, _, _)
StrHashFrom(k, i, h) ==
    IF i > Len(k) THEN h ELSE StrHashFrom(k, i + 1, (h * 31 + k[i]) % (2 ^ HashBits))

RECURSIVE SumHashes(_, _)
SumHashes(seed, keys) ==
    IF keys = {} THEN 0
    ELSE LET k == CHOOSE x \in keys : TRUE IN
         (StrHashFrom(k, 1, seed) + SumHashes(seed, keys \ {k})) % (2 ^ HashBits)

\* hash(frozenset(group_of_keys)): a signed integer that depends on the keys as a
\* set and on the process's hash seed (HashBits wide here, 64 in CPython)
hash_frozenset(seed, keys) ==
    ((SumHashes(seed, keys) * 509 + 12345) % (2 ^ HashBits)) - 2 ^ (HashBits - 1)

\* what `ipfs add` hashes: the bytes wrapped as a UnixFS file
UnixFS(raw_value) == <<Tok("unixfs", Len(raw_value), <<>>, NoBin)>> \o raw_value

\* IPFSStore.put_raw: /api/v0/add for dag-pb, /api/v0/dag/put otherwise
IPFSStore_put_raw(slf, blks, raw_value, codec) ==
    LET cid == IF codec = DagPbCodec
               THEN CID("base58btc", 0, DagPbCodec, Digest("sha2-256", UnixFS(raw_value)))
               ELSE CID("base32", 1, codec, Digest(slf.default_hash, raw_value))
    IN  [cid |-> cid,
         blocks |-> [k \in DOMAIN blks \cup {cid.digest} |->
                        IF k = cid.digest THEN raw_value ELSE blks[k]]]

\* IPFSStore.get_raw: /api/v0/cat for dag-pb, /api/v0/block/get otherwise
IPFSStore_get_raw(blks, cid) ==
    IF cid.digest \in DOMAIN blks THEN [err |-> "", data |-> blks[cid.digest]]
    ELSE [err |-> "HTTPError", data |-> <<>>]

\* IPFSStore.put_sub_tree
put_sub_tree(slf, blks, d) == IPFSStore_put_raw(slf, blks, cbor2_dumps(d), DagCborCodec)

\* list(node.keys())
KeyList(kids) == [i \in 1..Len(kids) |-> kids[i].k]
SetOf(seq) == {seq[i] : i \in 1..Len(seq)}

RECURSIVE make_tree_structure(_, _, _, _), MakeKids(_, _, _, _, _), MakeGroups(_, _, _, _, _, _)
\* IPFSStore.make_tree_structure; fuel is the call depth left to the interpreter
make_tree_structure(slf, blks, node, fuel) ==
    IF node.t # "map" THEN [err |-> "", tree |-> node, blocks |-> blks]
    ELSE IF fuel = 0 THEN [err |-> "RecursionError", tree |-> node, blocks |-> blks]
    ELSE IF Len(node.kids) <= slf.max_nodes_per_level
    THEN MakeKids(slf, blks, node.kids, <<>>, fuel - 1)
    ELSE LET g == MakeGroups(slf, blks, node,
                             grouper(KeyList(node.kids), slf.max_nodes_per_level), <<>>, fuel - 1)
         IN  IF g.err # "" THEN g ELSE make_tree_structure(slf, g.blocks, g.tree, fuel - 1)

\* for key in node: new_tree[key] = self.make_tree_structure(node[key])
MakeKids(slf, blks, kids, new_tree, fuel) ==
    IF kids = <<>> THEN [err |-> "", tree |-> MapV(new_tree), blocks |-> blks]
    ELSE LET r == make_tree_structure(slf, blks, Head(kids).v, fuel) IN
         IF r.err # "" THEN r
         ELSE MakeKids(slf, r.blocks, Tail(kids), DictSet(new_tree, Head(kids).k, r.tree), fuel)

\* for group_of_keys in grouper(...): new_tree[key_for_group] = self.put_sub_tree(...)
MakeGroups(slf, blks, node, groups, new_tree, fuel) ==
    IF groups = <<>> THEN [err |-> "", tree |-> MapV(new_tree), blocks |-> blks]
    ELSE LET group_of_keys == Head(groups)
             key_for_group == <<47>> \o IntText(hash_frozenset(slf.hashseed, SetOf(group_of_keys)))
             sub_tree == MapV([i \in 1..Len(group_of_keys) |->
                                KV(group_of_keys[i],
                                   node.kids[Lookup(node.kids, group_of_keys[i])].v)])
             r == make_tree_structure(slf, blks, sub_tree, fuel)
         IN  IF r.err # "" THEN r
             ELSE LET p == put_sub_tree(slf, r.blocks, r.tree) IN
                  MakeGroups(slf, p.blocks, node, Tail(groups),
                             DictSet(new_tree, key_for_group, LinkV(p.cid)), fuel)

\* str.isnumeric, on ASCII text
IsNumeric(t) == t # <<>> /\ \A i \in 1..Len(t) : t[i] \in 48..57

\* len(k) > 1 and k.startswith("/") and k[2:].isnumeric()
IsPlaceholder(k) == Len(k) > 1 /\ k[1] = 47 /\ IsNumeric(SubSeq(k, 3, Len(k)))

RecoverFail(err) == [err |-> err, v |-> IntV(0), ret |-> <<>>, all |-> <<>>]

RECURSIVE recover_tree(_, _), RecoverKids(_, _, _, _), MergeRecovered(_, _, _), MergeKeys(_, _, _)
\* IPFSStore.recover_tree
recover_tree(blks, broken_struct) ==
    IF broken_struct.t # "map" THEN [err |-> "", v |-> broken_struct, ret |-> <<>>, all |-> <<>>]
    ELSE LET r == RecoverKids(blks, broken_struct.kids, <<>>, <<>>) IN
         IF r.err # "" THEN r ELSE MergeRecovered(blks, r.all, r.ret)

\* for k in broken_struct: a placeholder's value is read as a CBORTag (.value[1:])
RecoverKids(blks, kids, ret_tree, all_recovered) ==
    IF kids = <<>> THEN [err |-> "", v |-> IntV(0), ret |-> ret_tree, all |-> all_recovered]
    ELSE LET k == Head(kids).k
             v == Head(kids).v
         IN  IF IsPlaceholder(k)
             THEN IF v.t # "tag" THEN RecoverFail("AttributeError")
                  ELSE LET raw == IPFSStore_get_raw(blks, CIDdecode(v.cid)) IN
                       IF raw.err # "" THEN RecoverFail(raw.err)
                       ELSE LET d == cbor2_loads(raw.data) IN
                            IF ~d.ok THEN RecoverFail("DecodeError")
                            ELSE LET recovered == recover_tree(blks, d.v) IN
                                 IF recovered.err # "" THEN recovered
                                 ELSE RecoverKids(blks, Tail(kids), ret_tree,
                                                  Append(all_recovered, recovered.v))
             ELSE LET rec == recover_tree(blks, v) IN
                  IF rec.err # "" THEN rec
                  ELSE RecoverKids(blks, Tail(kids), DictSet(ret_tree, k, rec.v), all_recovered)

\* for recovered in all_recovered: for k in recovered: ret_tree[k] = ...
\* (a recovered node that is no dict cannot be indexed by what it iterates: TypeError)
MergeRecovered(blks, all_recovered, ret_tree) ==
    IF all_recovered = <<>> THEN [err |-> "", v |-> MapV(ret_tree), ret |-> <<>>, all |-> <<>>]
    ELSE IF Head(all_recovered).t # "map" THEN RecoverFail("TypeError")
    ELSE LET m == MergeKeys(blks, Head(all_recovered).kids, ret_tree) IN
         IF m.err # "" THEN m ELSE MergeRecovered(blks, Tail(all_recovered), m.ret)

MergeKeys(blks, kids, ret_tree) ==
    IF kids = <<>> THEN [err |-> "", v |-> IntV(0), ret |-> ret_tree, all |-> <<>>]
    ELSE LET rec == recover_tree(blks, Head(kids).v) IN
         IF rec.err # "" THEN rec
         ELSE MergeKeys(blks, Tail(kids), DictSet(ret_tree, Head(kids).k, rec.v))

\* IPFSStore.get
IPFSStore_get(blks, cid) ==
    LET value == IPFSStore_get_raw(blks, cid) IN
    IF value.err # "" THEN [err |-> value.err, v |-> IntV(0)]
    ELSE IF cid.codec = DagPbCodec THEN [err |-> "", v |-> BytesV(value.data)]
    ELSE IF cid.codec = DagCborCodec
         THEN LET d == cbor2_loads(value.data) IN
              IF ~d.ok THEN [err |-> "DecodeError", v |-> IntV(0)]
              ELSE LET r == recover_tree(blks, d.v) IN [err |-> r.err, v |-> r.v]
    ELSE [err |-> "ValueError", v |-> IntV(0)]

----------------------------------------------------------------------------
(* The operations of an IPFSStore                                          *)

\* the keys "a", "b", "c", ...
Key(i) == <<96 + i>>
\* {"a": 1, "b": 2, ...} with n keys
Flat(n) == MapV([i \in 1..n |-> KV(Key(i), IntV(i))])
\* the text "/12": a data key that has the shape of a placeholder
TextSlash12 == <<47, 49, 50>>

IPFSValues ==
    {Flat(n) : n \in 0..MaxKeys}
    \cup {BytesV(B1),
          ListV(<<KV(<<>>, IntV(1))>>),
          MapV(<<KV(TextA, Flat(MaxKeys)), KV(TextB, IntV(2))>>),
          MapV(<<KV(TextA, ListV(<<KV(<<>>, Flat(MaxKeys))>>))>>),
          MapV(<<KV(TextA, IntV(1)), KV(TextB, LinkV(RawCid("sha2-256", B1)))>>),
          MapV(<<KV(TextA, IntV(1)), KV(TextSlash12, IntV(2))>>)}

IPFSRawInputs == {<<B1, RawCodec>>, <<B2, DagCborCodec>>}

Limits == {1, 2, 3}
Selves ==
    [max_nodes_per_level : Limits, default_hash : {"sha2-256"}, hashseed : {0, 1}]

InitIPFS ==
    /\ mapping = EmptyMapping
    /\ config = [hash |-> "sha2-256", base |-> "base32"]
    /\ car = NoCar
    /\ imp = Idle
    /\ out = NoOut
    /\ blocks = EmptyMapping
    /\ self \in Selves
    /\ shard = NotSharding
    /\ ipfsOut = NoIpfsOut

\* IPFSStore(host, max_nodes_per_level=...) on a node that holds nothing yet
IPFSNew ==
    /\ shard.pc # "sharding"
    /\ blocks' = EmptyMapping
    /\ self' \in Selves
    /\ shard' = NotSharding
    /\ ipfsOut' = NoIpfsOut
    /\ UNCHANGED memVars

Oversized == shard.node.t = "map" /\ Len(shard.node.kids) > self.max_nodes_per_level

\* IPFSStore.put: bytes go to put_raw at once, any other value enters make_tree_structure
IPFSPut(value) ==
    /\ shard.pc # "sharding"
    /\ shard.puts < MaxPuts
    /\ IF value.t = "bytes"
       THEN LET p == IPFSStore_put_raw(self, blocks, value.b, DagPbCodec) IN
            /\ blocks' = p.blocks
            /\ shard' = [NotSharding EXCEPT !.pc = "done", !.value = value, !.cid = p.cid,
                                            !.puts = shard.puts + 1]
            /\ ipfsOut' = [NoIpfsOut EXCEPT !.op = "put", !.cid = p.cid]
       ELSE /\ shard' = [NotSharding EXCEPT !.pc = "sharding", !.node = value, !.value = value,
                                            !.puts = shard.puts]
            /\ blocks' = blocks
            /\ ipfsOut' = NoIpfsOut
    /\ UNCHANGED <<self, memVars>>

\* one call of make_tree_structure on a dict over the limit: the groups are stored and
\* the call recurses on the dict of placeholders (return self.make_tree_structure(new_tree))
ShardStep ==
    /\ shard.pc = "sharding"
    /\ Oversized
    /\ LET g == IF shard.depth >= RecursionLimit
                THEN [err |-> "RecursionError", tree |-> shard.node, blocks |-> blocks]
                ELSE MakeGroups(self, blocks, shard.node,
                                grouper(KeyList(shard.node.kids), self.max_nodes_per_level),
                                <<>>, RecursionLimit - shard.depth - 1)
       IN  /\ blocks' = g.blocks
           /\ IF g.err # ""
              THEN /\ shard' = [shard EXCEPT !.pc = "failed", !.puts = shard.puts + 1]
                   /\ ipfsOut' = [NoIpfsOut EXCEPT !.op = "put", !.err = g.err]
              ELSE /\ shard' = [shard EXCEPT !.node = g.tree, !.depth = shard.depth + 1,
                                             !.was = Len(shard.node.kids)]
                   /\ ipfsOut' = NoIpfsOut
    /\ UNCHANGED <<self, memVars>>

\* the last call of make_tree_structure, on a value within the limit, and put's put_raw
ShardFinish ==
    /\ shard.pc = "sharding"
    /\ ~Oversized
    /\ LET r == make_tree_structure(self, blocks, shard.node, RecursionLimit - shard.depth) IN
       IF r.err # ""
       THEN /\ blocks' = r.blocks
            /\ shard' = [shard EXCEPT !.pc = "failed", !.puts = shard.puts + 1]
            /\ ipfsOut' = [NoIpfsOut EXCEPT !.op = "put", !.err = r.err]
       ELSE LET p == IPFSStore_put_raw(self, r.blocks, cbor2_dumps(r.tree), DagCborCodec) IN
            /\ blocks' = p.blocks
            /\ shard' = [shard EXCEPT !.pc = "done", !.node = r.tree, !.cid = p.cid,
                                      !.puts = shard.puts + 1]
            /\ ipfsOut' = [NoIpfsOut EXCEPT !.op = "put", !.cid = p.cid]
    /\ UNCHANGED <<self, memVars>>

IPFSPutRaw(raw_value, codec) ==
    /\ shard.pc # "sharding"
    /\ shard.puts < MaxPuts
    /\ LET p == IPFSStore_put_raw(self, blocks, raw_value, codec) IN
       /\ blocks' = p.blocks
       /\ shard' = [NotSharding EXCEPT !.pc = "done", !.value = BytesV(raw_value), !.cid = p.cid,
                                       !.puts = shard.puts + 1]
       /\ ipfsOut' = [NoIpfsOut EXCEPT !.op = "put_raw", !.cid = p.cid]
    /\ UNCHANGED <<self, memVars>>

\* IPFSStore.get of the identifier the last put or put_raw returned
IPFSGet ==
    /\ shard.pc = "done"
    /\ LET r == IPFSStore_get(blocks, shard.cid) IN
       ipfsOut' = [op |-> "get", err |-> r.err, cid |-> shard.cid, v |-> r.v]
    /\ UNCHANGED <<blocks, self, shard, memVars>>

NextIPFS ==
    \/ IPFSNew
    \/ \E value \in IPFSValues : IPFSPut(value)
    \/ ShardStep
    \/ ShardFinish
    \/ \E i \in IPFSRawInputs : IPFSPutRaw(i[1], i[2])
    \/ IPFSGet

SpecIPFS == InitIPFS /\ [][NextIPFS]_vars

----------------------------------------------------------------------------
(* Properties of the MappingCAStore                                        *)

\* whether the mapping holds a block for cid, read off the mapping itself
Held(m, cfg, cid) == StrCID(CIDset(cid, cfg.base, 1)) \in DOMAIN m
BlockOf(m, cfg, cid) == m[StrCID(CIDset(cid, cfg.base, 1))]

\* the identifiers a held block links to
LinksOf(m, cfg, cid) ==
    IF cid.codec = DagCborCodec /\ Held(m, cfg, cid) /\ dag_cbor_decode(BlockOf(m, cfg, cid)).ok
    THEN SetOf(iter_links(dag_cbor_decode(BlockOf(m, cfg, cid)).v))
    ELSE {}

RECURSIVE ReachFrom(_, _, _, _)
ReachFrom(m, cfg, frontier, seen) ==
    IF frontier = {} THEN seen
    ELSE LET new == UNION {LinksOf(m, cfg, c) : c \in frontier} IN
         ReachFrom(m, cfg, {c \in new : BinCID(c) \notin {BinCID(x) : x \in seen}}, seen \cup new)

\* root and everything reachable from it through links
Reachable(m, cfg, root) == ReachFrom(m, cfg, {root}, {root})

Absent(m, cfg, root) == \E c \in Reachable(m, cfg, root) : ~Held(m, cfg, c)
Malformed(m, cfg, root) ==
    \E c \in Reachable(m, cfg, root) :
        c.codec = DagCborCodec /\ Held(m, cfg, c) /\ ~dag_cbor_decode(BlockOf(m, cfg, c)).ok

\* C1: every entry of the backing mapping is keyed by the text of a version-1
\* identifier, in the store's base, whose digest is the store's default hash of the
\* entry's bytes; in every state, the states between two entries of an import included
C1_KeysAreContentAddresses ==
    \A k \in DOMAIN mapping :
        /\ k.prefix = MultibasePrefix(config.base)
        /\ k.bin.version = 1
        /\ k.bin.hashfn = config.hash
        /\ k.bin.digest = Digest(config.hash, mapping[k])

\* an import stopped between two entries, into a store that held blocks before
C1_Witness ==
    /\ imp.pc = "reading"
    /\ imp.rest # <<>>
    /\ imp.before # EmptyMapping
    /\ mapping # imp.before
    /\ config.hash # imp.src.hash

\* C2: put_raw(b, c) returns the identifier that b, c and the store's configuration
\* determine (so the same one on every call), get_raw of it yields exactly b, and a
\* put_raw of a block the store already holds leaves the mapping unchanged
C2_PutRawIsContentAddressed ==
    /\ [](out.op = "put_raw" =>
            /\ out.cid = CID(config.base, 1, out.codec, Digest(config.hash, out.arg))
            /\ get_raw(mapping, config, out.cid) = [err |-> "", data |-> out.arg])
    /\ [][(out'.op = "put_raw" /\ out'.had) => mapping' = mapping]_vars
    /\ [][(out.op = "put_raw" /\ out'.op = "put_raw" /\ out'.arg = out.arg
           /\ out'.codec = out.codec /\ config' = config) => out'.cid = out.cid]_vars

\* a put_raw of bytes the store already held under that codec
C2_Witness == out.op = "put_raw" /\ out.had /\ config.base = "base58btc"

\* an import that read the archive as written, to its end, into a store that was empty
CleanImportIntoFresh == imp.pc = "done" /\ imp.tamper = "none" /\ imp.before = EmptyMapping

\* the round trip: get(root) is what the exporting store's get(root) was, and
\* import_car returned the root in the store's base and version 1
RoundTrips ==
    /\ get(mapping, config, imp.src.root) = imp.src.got
    /\ out.roots = <<CIDset(imp.src.root, config.base, 1)>>

\* C6 as stated: importing to_car(root) into any fresh store gives back get(root)
\* and returns [normalize_cid(root)]
C6_RoundTripAnyFreshStore == CleanImportIntoFresh => RoundTrips

\* C6 restricted to a fresh store whose default hash function is the exporting
\* store's: there the round trip holds
C6_RoundTripSameHash == (CleanImportIntoFresh /\ config.hash = imp.src.hash) => RoundTrips

\* the round trip of a root with shared children, into a store of another base
C6_Witness ==
    /\ CleanImportIntoFresh
    /\ config.hash = imp.src.hash
    /\ Len(imp.src.frames) = 4
    /\ config.base # imp.src.root.base
    /\ imp.src.got.err = ""

\* the identifiers entry i of the archive links to, in traversal order
FrameLinks(frames, i) ==
    LET d == dag_cbor_decode(frames[i].data) IN
    IF frames[i].cid.codec = DagCborCodec /\ d.ok
    THEN [p \in 1..Len(iter_links(d.v)) |-> BinCID(iter_links(d.v)[p])]
    ELSE <<>>

IsParent(frames, i, j) == frames[j].cid \in SetOf(FrameLinks(frames, i))

\* the entry through which entry j was discovered: the last one before it that links to it
Discoverer(frames, j) ==
    CHOOSE i \in 1..(j - 1) :
        IsParent(frames, i, j) /\ \A k \in (i + 1)..(j - 1) : ~IsParent(frames, k, j)

FirstAt(seq, x) == CHOOSE p \in 1..Len(seq) : seq[p] = x /\ \A q \in 1..(p - 1) : seq[q] # x

\* C7: the archive of a successful to_car(root) holds one entry for every block
\* reachable from root and no other, no identifier twice, each entry the store's
\* block, and the entries in depth-first pre-order: the root first, every other
\* entry after an entry that links to it, the children discovered through one entry
\* in the order its links yield them, and nothing between an entry and a child
\* discovered through it but that entry's own descendants
C7_ArchiveIsPreOrderClosure ==
    (out.op = "to_car" /\ out.err = "") =>
        LET f == car.frames
            n == Len(f)
        IN  /\ n >= 1
            /\ {f[i].cid : i \in 1..n} = {BinCID(c) : c \in Reachable(mapping, config, out.cid)}
            /\ \A i, j \in 1..n : i # j => f[i].cid # f[j].cid
            /\ \A i \in 1..n :
                  /\ Held(mapping, config, CIDdecode(f[i].cid))
                  /\ f[i].data = BlockOf(mapping, config, CIDdecode(f[i].cid))
                  /\ f[i].len = CidLen(f[i].cid) + Len(f[i].data)
            /\ f[1].cid = BinCID(out.cid)
            /\ \A j \in 2..n : \E i \in 1..(j - 1) : IsParent(f, i, j)
            /\ \A j1, j2 \in 2..n :
                  (j1 < j2 /\ Discoverer(f, j1) = Discoverer(f, j2)) =>
                      FirstAt(FrameLinks(f, Discoverer(f, j1)), f[j1].cid)
                          < FirstAt(FrameLinks(f, Discoverer(f, j1)), f[j2].cid)
            /\ \A j \in 2..n : \A k \in 2..(j - 1) :
                  Discoverer(f, j) < k => Discoverer(f, k) >= Discoverer(f, j)

\* the export of {"p": Y2, "q": X2}: X1 is linked twice, X2 from two blocks
C7_Witness ==
    /\ out.op = "to_car"
    /\ out.err = ""
    /\ Len(car.frames) = 4
    /\ out.cid.base = "base58btc"

\* C8 as stated: an import_car that fails leaves the store holding exactly the
\* blocks it held before the call
C8_ImportIsAllOrNothing == imp.pc = "failed" => mapping = imp.before

\* C10 as stated: to_car(root) raises KeyError when a reachable block is absent,
\* and does not fail when every reachable block is present
C10_ToCarFailsOnlyOnAbsence ==
    out.op = "to_car" =>
        /\ Absent(mapping, config, out.cid) => out.err = "KeyError"
        /\ ~Absent(mapping, config, out.cid) => out.err = ""

\* C10 amended: to_car(root) fails and hands back no archive when a reachable block
\* is absent, raises KeyError only then, does not fail when every reachable block
\* is present and every reachable dag-cbor block decodes, and never changes the store
C10_ToCarOutcome ==
    /\ [](out.op = "to_car" =>
            /\ Absent(mapping, config, out.cid) => out.err # ""
            /\ out.err = "KeyError" => Absent(mapping, config, out.cid)
            /\ (~Absent(mapping, config, out.cid) /\ ~Malformed(mapping, config, out.cid))
                  => out.err = "")
    /\ [][out'.op = "to_car" => (mapping' = mapping /\ (out'.err # "" => car' = car))]_vars

\* an export whose root is held and one of whose descendants is not
C10_Witness ==
    /\ out.op = "to_car"
    /\ out.err = "KeyError"
    /\ Held(mapping, config, out.cid)

----------------------------------------------------------------------------
(* Properties of the IPFSStore                                             *)

RECURSIVE ValEq(_, _)
\* equality of values, a dict being a set of key/value pairs
ValEq(a, b) ==
    IF a.t # b.t THEN FALSE
    ELSE CASE a.t = "map" ->
                /\ Len(a.kids) = Len(b.kids)
                /\ Keys(a.kids) = Keys(b.kids)
                /\ \A i \in 1..Len(a.kids) :
                      ValEq(a.kids[i].v, b.kids[Lookup(b.kids, a.kids[i].k)].v)
           [] a.t = "list" ->
                /\ Len(a.kids) = Len(b.kids)
                /\ \A i \in 1..Len(a.kids) : ValEq(a.kids[i].v, b.kids[i].v)
           [] OTHER -> a = b

RECURSIVE MaxFanout(_), MaxFanoutKids(_)
\* the largest number of entries of a map anywhere in a value
MaxFanout(v) ==
    IF v.t \notin {"map", "list"} THEN 0
    ELSE LET below == MaxFanoutKids(v.kids)
             here == IF v.t = "map" THEN Len(v.kids) ELSE 0
         IN  IF here > below THEN here ELSE below

MaxFanoutKids(kids) ==
    IF kids = <<>> THEN 0
    ELSE LET a == MaxFanout(Head(kids).v)
             b == MaxFanoutKids(Tail(kids))
         IN  IF a > b THEN a ELSE b

\* C3 as stated: a map written with put (make_tree_structure) and read back with
\* get (recover_tree) comes back with exactly its key/value pairs
C3_ShardRecoverRoundTrip ==
    (ipfsOut.op = "get" /\ shard.value.t = "map") =>
        (ipfsOut.err = "" /\ ValEq(ipfsOut.v, shard.value))

\* one more call of make_tree_structure on the dict of placeholders
Resharded ==
    shard.pc = "sharding" /\ shard'.pc = "sharding" /\ shard'.depth = shard.depth + 1

C5_EveryMapWithinLimit ==
    \A k \in DOMAIN blocks :
        cbor2_loads(blocks[k]).ok =>
            MaxFanout(cbor2_loads(blocks[k]).v) <= self.max_nodes_per_level

\* C9 as stated, for the IPFSStore: put(bytes) stores under the raw tag, get of a raw
\* identifier returns the bytes, get of a tag that is neither raw nor dag-cbor fails
C9_DispatchInIPFSStore ==
    /\ (ipfsOut.op = "put" /\ ipfsOut.err = "" /\ shard.value.t = "bytes")
          => ipfsOut.cid.codec = RawCodec
    /\ (ipfsOut.op = "get" /\ ipfsOut.cid.codec = RawCodec)
          => (ipfsOut.err = "" /\ ipfsOut.v = shard.value)
    /\ (ipfsOut.op = "get" /\ ipfsOut.cid.codec \notin {RawCodec, DagCborCodec})
          => ipfsOut.err = "ValueError"

====
